---- MODULE Spec2Model ----
(***************************************************************************)
(* dockermonitor (main.go): a Registry of per-environment Docker state,    *)
(* three probes (CheckDockerVersion, CheckContainersStatus,                *)
(* CheckLocalImages) that shell out and write into the Registry, and       *)
(* Workflows that run probes in order for one environment name.            *)
(*                                                                         *)
(* Text is modelled as a sequence of tokens (one token per lexical unit   *)
(* of the docker output: a quote, a brace, a colon, a comma, a newline,    *)
(* a key or value word), so that strings.ReplaceAll, strings.Split,        *)
(* strings.TrimSpace, TrimSuffix and json.Unmarshal are computed on the    *)
(* text and not assumed.                                                   *)
(***************************************************************************)
EXTENDS Naturals, Sequences, FiniteSets

VARIABLES DockerEnvironments, workflows, pc, wi, ai, started, ran, result,
          last, latest

vars == <<DockerEnvironments, workflows, pc, wi, ai, started, ran, result,
          last, latest>>

(***************************************************************************)
(* Tokens of the command output.                                           *)
(***************************************************************************)
Q == "\""
LB == "{"
RB == "}"
COLON == ":"
COMMA == ","
NL == "\n"
SENT == "<===>"
NUM == "5"
WARN == "WARNING"
EOT == ""

At(s, i) == IF i \in 1..Len(s) THEN s[i] ELSE EOT

(***************************************************************************)
(* package strings                                                         *)
(***************************************************************************)
HasPrefixAt(s, i, pat) ==
    /\ i + Len(pat) - 1 <= Len(s)
    /\ \A k \in 1..Len(pat) : s[i + k - 1] = pat[k]

\* strings.Index from position i: where pat first occurs at or after i, or 0
IndexFrom(s, pat, i) ==
    LET hits == {j \in i..Len(s) : HasPrefixAt(s, j, pat)}
    IN  IF hits = {} THEN 0 ELSE CHOOSE j \in hits : \A k \in hits : j <= k

RECURSIVE ReplaceFrom(_, _, _, _)
ReplaceFrom(s, old, new, i) ==
    LET j == IndexFrom(s, old, i)
    IN  IF j = 0 THEN SubSeq(s, i, Len(s))
        ELSE SubSeq(s, i, j - 1) \o new \o ReplaceFrom(s, old, new, j + Len(old))

\* strings.ReplaceAll: every non-overlapping occurrence, left to right
ReplaceAll(s, old, new) == ReplaceFrom(s, old, new, 1)

RECURSIVE SplitFrom(_, _, _)
SplitFrom(s, sep, i) ==
    LET j == IndexFrom(s, sep, i)
    IN  IF j = 0 THEN <<SubSeq(s, i, Len(s))>>
        ELSE <<SubSeq(s, i, j - 1)>> \o SplitFrom(s, sep, j + Len(sep))

\* strings.Split: always at least one element (the text before the first sep)
Split(s, sep) == SplitFrom(s, sep, 1)

IsSpace(t) == t = NL

RECURSIVE TrimLeft(_)
TrimLeft(s) ==
    IF s # <<>> /\ IsSpace(Head(s)) THEN TrimLeft(Tail(s)) ELSE s

RECURSIVE TrimRight(_)
TrimRight(s) ==
    IF s # <<>> /\ IsSpace(s[Len(s)])
    THEN TrimRight(SubSeq(s, 1, Len(s) - 1)) ELSE s

TrimSpace(s) == TrimRight(TrimLeft(s))

HasSuffix(s, suffix) ==
    /\ Len(suffix) <= Len(s)
    /\ SubSeq(s, Len(s) - Len(suffix) + 1, Len(s)) = suffix

TrimSuffix(s, suffix) ==
    IF HasSuffix(s, suffix) THEN SubSeq(s, 1, Len(s) - Len(suffix)) ELSE s

(***************************************************************************)
(* Record shapes.  A representative subset of the fields is kept: every    *)
(* field of ContainerInfo and ImageInfo is a string decoded by its json    *)
(* tag; Command/Containers are the leading fields the split keys on,       *)
(* State drives the classification, Image is read by main, and             *)
(* CreatedSince is the one field whose tag is not the lower-cased name.    *)
(***************************************************************************)
ContainerFields == <<"Command", "ID", "Image", "State", "Status">>
ImageFields == <<"Containers", "CreatedSince", "Repository", "Tag">>

ContainerTags ==
    [Command |-> "command", ID |-> "id", Image |-> "image",
     State |-> "state", Status |-> "status"]

ImageTags ==
    [Containers |-> "containers", CreatedSince |-> "createSince",
     Repository |-> "repository", Tag |-> "tag"]

ZeroContainerInfo ==
    [Command |-> "", ID |-> "", Image |-> "", State |-> "", Status |-> ""]

ZeroImageInfo ==
    [Containers |-> "", CreatedSince |-> "", Repository |-> "", Tag |-> ""]

(***************************************************************************)
(* encoding/json                                                           *)
(***************************************************************************)
\* case folding of the key names that occur (json matches keys to tags
\* exactly or, failing that, case-insensitively)
FoldTable ==
    [Command |-> "command", command |-> "command",
     ID |-> "id", id |-> "id",
     Image |-> "image", image |-> "image",
     State |-> "state", state |-> "state",
     Status |-> "status", status |-> "status",
     Containers |-> "containers", containers |-> "containers",
     CreatedSince |-> "createdsince", createSince |-> "createsince",
     Repository |-> "repository", repository |-> "repository",
     Tag |-> "tag", tag |-> "tag"]

Fold(k) == IF k \in DOMAIN FoldTable THEN FoldTable[k] ELSE k

RECURSIVE Ws(_, _)
\* skip insignificant whitespace between JSON tokens
Ws(t, i) == IF i <= Len(t) /\ IsSpace(t[i]) THEN Ws(t, i + 1) ELSE i

RECURSIVE StrEnd(_, _)
\* index of the quote closing a string literal whose text starts at j, or 0
\* (end of input, or a raw control character inside the literal)
StrEnd(t, j) ==
    IF j > Len(t) THEN 0
    ELSE IF t[j] = Q THEN j
    ELSE IF IsSpace(t[j]) THEN 0
    ELSE StrEnd(t, j + 1)

RECURSIVE Join(_)
Join(s) == IF s = <<>> THEN "" ELSE Head(s) \o Join(Tail(s))

Invalid == [ok |-> FALSE, members |-> <<>>]

RECURSIVE ParseMembers(_, _, _)
\* members of an object, from the token at i up to the closing brace, which
\* must end the input; a value is a string literal or a number
ParseMembers(t, i, acc) ==
    LET k1 == Ws(t, i)
        ke == IF At(t, k1) = Q THEN StrEnd(t, k1 + 1) ELSE 0
        c  == Ws(t, ke + 1)
        v1 == Ws(t, c + 1)
        isStr == At(t, v1) = Q
        ve == IF isStr THEN StrEnd(t, v1 + 1)
              ELSE IF At(t, v1) = NUM THEN v1 ELSE 0
        nx == Ws(t, ve + 1)
        m  == [key |-> Join(SubSeq(t, k1 + 1, ke - 1)),
               isString |-> isStr,
               val |-> IF isStr THEN Join(SubSeq(t, v1 + 1, ve - 1)) ELSE NUM]
    IN  IF ke = 0 \/ At(t, c) # COLON \/ ve = 0 THEN Invalid
        ELSE IF At(t, nx) = COMMA THEN ParseMembers(t, nx + 1, Append(acc, m))
        ELSE IF At(t, nx) = RB /\ Ws(t, nx + 1) > Len(t)
             THEN [ok |-> TRUE, members |-> Append(acc, m)]
        ELSE Invalid

\* the scan of one top-level JSON object; anything else leaves the target
\* struct untouched (a syntax error, or a non-object value)
ParseObject(t) ==
    LET i0 == Ws(t, 1)
        i1 == Ws(t, i0 + 1)
    IN  IF At(t, i0) # LB THEN Invalid
        ELSE IF At(t, i1) = RB
             THEN IF Ws(t, i1 + 1) > Len(t)
                  THEN [ok |-> TRUE, members |-> <<>>] ELSE Invalid
        ELSE ParseMembers(t, i1, <<>>)

\* the struct field a key decodes into, or "" when no tag matches
FieldFor(key, fields, tags) ==
    LET hit == {n \in 1..Len(fields) : Fold(tags[fields[n]]) = Fold(key)}
    IN  IF hit = {} THEN "" ELSE fields[CHOOSE n \in hit : TRUE]

RECURSIVE Decode(_, _, _, _, _)
\* members are stored in order (a later duplicate key wins); a number for a
\* string field is skipped with the error saved, decoding goes on
Decode(ms, n, rec, fields, tags) ==
    IF n > Len(ms) THEN rec
    ELSE LET f == FieldFor(ms[n].key, fields, tags)
         IN  IF f # "" /\ ms[n].isString
             THEN Decode(ms, n + 1, [rec EXCEPT ![f] = ms[n].val], fields, tags)
             ELSE Decode(ms, n + 1, rec, fields, tags)

\* json.Unmarshal([]byte(text), &v) with v zero-valued; the error is dropped
Unmarshal(t, zero, fields, tags) ==
    LET p == ParseObject(t)
    IN  IF p.ok THEN Decode(p.members, 1, zero, fields, tags) ELSE zero

(***************************************************************************)
(* The docker CLI: what `docker ... --format "{{json .}}"` prints for a    *)
(* list of records: each record as a JSON object of its fields, wrapped    *)
(* in literal quotes, one per line, nothing between the records.           *)
(***************************************************************************)
RECURSIVE RenderFields(_, _, _)
RenderFields(rec, fields, n) ==
    IF n > Len(fields) THEN <<>>
    ELSE (IF n > 1 THEN <<COMMA>> ELSE <<>>)
         \o <<Q, fields[n], Q, COLON, Q>>
         \o (IF rec[fields[n]] = "" THEN <<>> ELSE <<rec[fields[n]]>>)
         \o <<Q>>
         \o RenderFields(rec, fields, n + 1)

RenderRecord(rec, fields) ==
    <<Q, LB>> \o RenderFields(rec, fields, 1) \o <<RB, Q, NL>>

\* position of the value word of field number n in a rendered record with
\* non-empty values
ValuePos(n) == 8 * n

\* what a damaged line looks like: "cut" stops inside the second field's
\* value, "tail" loses the closing brace and quote, "num" carries a number
\* where the last field's string should be, "head" has lost the leading
\* quote of the line
Damage(r, dmg, fields) ==
    CASE dmg = "cut"  -> SubSeq(r, 1, ValuePos(2) - 1)
      [] dmg = "tail" -> SubSeq(r, 1, Len(r) - 3)
      [] dmg = "num"  -> SubSeq(r, 1, ValuePos(Len(fields)) - 2) \o <<NUM>>
                         \o SubSeq(r, ValuePos(Len(fields)) + 2, Len(r))
      [] dmg = "head" -> Tail(r)
      [] OTHER        -> r

RECURSIVE RenderItems(_, _, _)
RenderItems(items, fields, n) ==
    IF n > Len(items) THEN <<>>
    ELSE Damage(RenderRecord(items[n].rec, fields), items[n].dmg, fields)
         \o RenderItems(items, fields, n + 1)

\* the combined output: an optional warning line, then the records
RenderOutput(src, fields) ==
    (IF src.pre THEN <<WARN, NL>> ELSE <<>>) \o RenderItems(src.items, fields, 1)

(***************************************************************************)
(* NewDockerMonitor                                                        *)
(***************************************************************************)
InitialContainers == 0
InitialLocalImages == 0

NewDockerMonitor(envs) ==
    [n \in 1..Len(envs) |->
        [Environment            |-> envs[n],
         StoppedContainers      |-> InitialContainers,
         RunningContainers      |-> InitialContainers,
         DockerVersion          |-> "",
         TotalLocalDockerImages |-> InitialLocalImages,
         ContainersInfo         |-> <<>>,
         ImagesInfo             |-> <<>>]]

NoErr == "nil"

\* the fault of updating every entry, whatever its name
MatchesAll(dockerEnv, env) == TRUE

\* `if dockerEnv.Environment == env`
Matches(dockerEnv, env) == dockerEnv.Environment = env

(***************************************************************************)
(* CheckDockerVersion.execute                                              *)
(***************************************************************************)
SetVersion(reg, env, version) ==
    [n \in DOMAIN reg |->
        IF Matches(reg[n], env)
        THEN [reg[n] EXCEPT !.DockerVersion = version]
        ELSE reg[n]]

(***************************************************************************)
(* CheckContainersStatus.execute                                           *)
(***************************************************************************)
ContainerMarker == <<Q, LB, Q, "Command", Q, COLON>>
ImageMarker == <<Q, LB, Q, "Containers", Q, COLON>>

\* adjustedString, then containersArray / imagesArray
Fragments(out, marker) ==
    Split(ReplaceAll(out, marker, <<SENT>> \o marker), <<SENT, Q>>)

\* the loop body for one fragment: trim, strip one trailing quote, unmarshal
ParseFragment(frag, zero, fields, tags) ==
    Unmarshal(TrimSuffix(TrimSpace(frag), <<Q>>), zero, fields, tags)

\* containerOutput: one record per fragment except the zero-th
ContainerOutput(out) ==
    LET arr == Fragments(out, ContainerMarker)
    IN  [n \in 1..(Len(arr) - 1) |->
            ParseFragment(arr[n + 1], ZeroContainerInfo, ContainerFields,
                          ContainerTags)]

\* the fault of taking everything that is not running for stopped
IsStoppedLoose(c) == c.State # "running"

\* `if jsonContainer.State == "exited"`
IsStopped(c) == c.State = "exited"

RECURSIVE CountStopped(_, _)
CountStopped(recs, n) ==
    IF n > Len(recs) THEN 0
    ELSE (IF IsStopped(recs[n]) THEN 1 ELSE 0) + CountStopped(recs, n + 1)

RECURSIVE CountRunning(_, _)
CountRunning(recs, n) ==
    IF n > Len(recs) THEN 0
    ELSE (IF IsStopped(recs[n]) THEN 0 ELSE 1) + CountRunning(recs, n + 1)

\* the fault of accumulating over executions
SetContainersAppend(reg, env, stopped, running, containerOutput) ==
    [n \in DOMAIN reg |->
        IF Matches(reg[n], env)
        THEN [reg[n] EXCEPT
                !.StoppedContainers = @ + stopped,
                !.RunningContainers = @ + running,
                !.ContainersInfo = @ \o containerOutput]
        ELSE reg[n]]

SetContainers(reg, env, stopped, running, containerOutput) ==
    [n \in DOMAIN reg |->
        IF Matches(reg[n], env)
        THEN [reg[n] EXCEPT
                !.StoppedContainers = stopped,
                !.RunningContainers = running,
                !.ContainersInfo = containerOutput]
        ELSE reg[n]]

(***************************************************************************)
(* CheckLocalImages.execute                                                *)
(***************************************************************************)
ImageOutput(out) ==
    LET arr == Fragments(out, ImageMarker)
    IN  [n \in 1..(Len(arr) - 1) |->
            ParseFragment(arr[n + 1], ZeroImageInfo, ImageFields, ImageTags)]

\* the fault of storing the records without their count
SetImagesKeepCount(reg, env, totalImages, imageOutput) ==
    [n \in DOMAIN reg |->
        IF Matches(reg[n], env)
        THEN [reg[n] EXCEPT !.ImagesInfo = imageOutput]
        ELSE reg[n]]

SetImages(reg, env, totalImages, imageOutput) ==
    [n \in DOMAIN reg |->
        IF Matches(reg[n], env)
        THEN [reg[n] EXCEPT
                !.TotalLocalDockerImages = totalImages,
                !.ImagesInfo = imageOutput]
        ELSE reg[n]]

(***************************************************************************)
(* Inputs: environment names, workflows, and what the commands return.     *)
(***************************************************************************)
Dev == "Dev Environment"
UAT == "UAT Environment"
Names == {Dev, UAT}

\* main's list, and a list with a duplicate name
EnvLists == {<<Dev, UAT>>, <<Dev, UAT, Dev>>}

Version == "CheckDockerVersion"
Status == "CheckContainersStatus"
Images == "CheckLocalImages"
Kinds == {Version, Status, Images}

\* main's action list, and one that repeats a probe
ActionLists == {<<Version, Status, Images>>, <<Status, Images, Status>>}

\* the single-probe workflows of the splitter runs
UnitLists == {<<Version>>, <<Status>>, <<Images>>}

\* main's two workflows; the first may use either action list, the second may
\* be bound to either name (the same name twice runs probes again on it)
WorkflowLists ==
    {<<[Name |-> Dev, Actions |-> a1],
       [Name |-> n2, Actions |-> <<Version, Status, Images>>]>> :
        a1 \in ActionLists, n2 \in Names}

Errors == {"exit status 1", "executable file not found in $PATH"}

VersionOutputs ==
    {<<"Docker version 20.10.7", NL>>, <<"Docker version 24.0.2", NL>>}

ExitedC ==
    [Command |-> "nginx", ID |-> "c1", Image |-> "web", State |-> "exited",
     Status |-> "Exited(0)"]
RunningC ==
    [Command |-> "redis", ID |-> "c2", Image |-> "cache", State |-> "running",
     Status |-> "Up"]
PausedC ==
    [Command |-> "sleep", ID |-> "c3", Image |-> "job", State |-> "paused",
     Status |-> "Up(Paused)"]

AlpineI ==
    [Containers |-> "N/A", CreatedSince |-> "2weeks", Repository |-> "alpine",
     Tag |-> "latest"]
BusyboxI ==
    [Containers |-> "N/A", CreatedSince |-> "3days", Repository |-> "busybox",
     Tag |-> "1.36"]

MaxOut == 1
MaxRecords == 3

Damages == {"cut", "tail", "num", "head"}

NoSrc == [pre |-> FALSE, items |-> <<>>]

\* lists of at most max records, at most one of them damaged
Items(recs, dmgs, max) ==
    UNION {
        {it \in [1..n -> [rec : recs, dmg : dmgs \cup {"none"}]] :
            Cardinality({k \in 1..n : it[k].dmg # "none"}) <= 1}
        : n \in 0..max}

\* the outputs of the workflow runs: no output at all, a warning alone, or
\* up to MaxOut intact records
PlainOutputs(recs) ==
    {[pre |-> FALSE, items |-> it] : it \in Items(recs, {}, MaxOut)}
    \cup {[pre |-> TRUE, items |-> <<>>]}

\* the outputs of the splitter runs: up to MaxRecords records, one of them
\* possibly damaged, with or without a leading warning line
WideOutputs(recs) ==
    {[pre |-> p, items |-> it] :
        p \in BOOLEAN, it \in Items(recs, Damages, MaxRecords)}

(***************************************************************************)
(* State after construction (main, lines 240-268)                          *)
(***************************************************************************)
InitWith(envLists, wfLists) ==
    /\ \E envs \in envLists : DockerEnvironments = NewDockerMonitor(envs)
    /\ workflows \in wfLists
    /\ pc = "main"
    /\ wi = 1
    /\ ai = 1
    /\ started = <<>>
    /\ ran = [w \in 1..Len(workflows) |-> 0]
    /\ result = [w \in 1..Len(workflows) |-> "pending"]
    /\ last = [w |-> 0, i |-> 0, kind |-> "", env |-> "", cmd |-> NoErr,
               err |-> NoErr, src |-> NoSrc, out |-> <<>>]
    /\ latest = [n \in Names |-> [k \in Kinds |-> [set |-> FALSE, out |-> <<>>]]]

Init == InitWith(EnvLists, WorkflowLists)

(***************************************************************************)
(* Workflow.executeActions and main's loop                                 *)
(***************************************************************************)
\* the fault of running on after an error
ReturnNever(err) == FALSE

\* `if err != nil { return err }`
ReturnsEarly(err) == err # NoErr

\* the fault of leaving the loop at the first failed workflow
NextIndexBreak(index, err) ==
    IF err # NoErr THEN Len(workflows) + 1 ELSE index + 1

\* main's range loop: the error is printed and the loop goes on
NextIndex(index, err) == index + 1

\* main calls w.executeActions() for workflow number wi
CallExecuteActions ==
    /\ pc = "main"
    /\ wi <= Len(workflows)
    /\ started' = Append(started, wi)
    /\ pc' = "exec"
    /\ ai' = 1
    /\ UNCHANGED <<DockerEnvironments, workflows, wi, ran, result, last, latest>>

\* the rest of one loop iteration of executeActions once a.execute(w.Name)
\* has returned err with the Registry now reg; cmd is what the command gave
AfterExecute(kind, cmd, err, src, out, reg) ==
    /\ DockerEnvironments' = reg
    /\ last' = [w |-> wi, i |-> ai, kind |-> kind, env |-> workflows[wi].Name,
                cmd |-> cmd, err |-> err, src |-> src, out |-> out]
    /\ latest' = IF err = NoErr
                 THEN [latest EXCEPT ![workflows[wi].Name][kind] =
                                        [set |-> TRUE, out |-> out]]
                 ELSE latest
    /\ ran' = [ran EXCEPT ![wi] = @ + 1]
    /\ IF ReturnsEarly(err)
       THEN /\ result' = [result EXCEPT ![wi] = err]
            /\ pc' = "ret"
            /\ ai' = ai
       ELSE /\ ai' = ai + 1
            /\ UNCHANGED <<pc, result>>
    /\ UNCHANGED <<workflows, wi, started>>

AtAction(kind) ==
    /\ pc = "exec"
    /\ ai <= Len(workflows[wi].Actions)
    /\ workflows[wi].Actions[ai] = kind

\* an execute that rejects an output without records
ExecuteReturnStrict(err, records) ==
    IF err = NoErr /\ records = <<>> THEN "no records in output" ELSE err

\* what execute returns: the command's error (`if err != nil { return err }`),
\* and nil after the loops whatever records the output held
ExecuteReturn(err, records) == err

CheckDockerVersion_execute ==
    /\ AtAction(Version)
    /\ \/ \E e \in Errors :
            AfterExecute(Version, e, e, NoSrc, <<>>, DockerEnvironments)
       \/ \E out \in VersionOutputs :
            AfterExecute(Version, NoErr, NoErr, NoSrc, out,
                SetVersion(DockerEnvironments, workflows[wi].Name, Join(out)))

CheckContainersStatus_execute(outputs) ==
    /\ AtAction(Status)
    /\ \/ \E e \in Errors :
            AfterExecute(Status, e, ExecuteReturn(e, <<>>), NoSrc, <<>>,
                         DockerEnvironments)
       \/ \E src \in outputs :
            LET out == RenderOutput(src, ContainerFields)
                containerOutput == ContainerOutput(out)
                err == ExecuteReturn(NoErr, containerOutput)
            IN  AfterExecute(Status, NoErr, err, src, out,
                    IF err = NoErr
                    THEN SetContainers(DockerEnvironments, workflows[wi].Name,
                                       CountStopped(containerOutput, 1),
                                       CountRunning(containerOutput, 1),
                                       containerOutput)
                    ELSE DockerEnvironments)

CheckLocalImages_execute(outputs) ==
    /\ AtAction(Images)
    /\ \/ \E e \in Errors :
            AfterExecute(Images, e, ExecuteReturn(e, <<>>), NoSrc, <<>>,
                         DockerEnvironments)
       \/ \E src \in outputs :
            LET out == RenderOutput(src, ImageFields)
                imageOutput == ImageOutput(out)
                err == ExecuteReturn(NoErr, imageOutput)
            IN  AfterExecute(Images, NoErr, err, src, out,
                    IF err = NoErr
                    THEN SetImages(DockerEnvironments, workflows[wi].Name,
                                   Len(imageOutput), imageOutput)
                    ELSE DockerEnvironments)

\* executeActions falls out of its loop: `return nil`
ReturnNil ==
    /\ pc = "exec"
    /\ ai > Len(workflows[wi].Actions)
    /\ result' = [result EXCEPT ![wi] = NoErr]
    /\ pc' = "ret"
    /\ UNCHANGED <<DockerEnvironments, workflows, wi, ai, started, ran, last, latest>>

\* back in main: print the error if any, next workflow
NextWorkflow ==
    /\ pc = "ret"
    /\ wi' = NextIndex(wi, result[wi])
    /\ pc' = "main"
    /\ UNCHANGED <<DockerEnvironments, workflows, ai, started, ran, result, last, latest>>

\* fmt.Println(d.DockerEnvironments[0].ContainersInfo[0].Image): both index
\* expressions are bounds-checked at run time
FinalPrint ==
    /\ pc = "main"
    /\ wi > Len(workflows)
    /\ \/ /\ Len(DockerEnvironments) >= 1
          /\ Len(DockerEnvironments[1].ContainersInfo) >= 1
          /\ pc' = "done"
       \/ /\ ~(/\ Len(DockerEnvironments) >= 1
                /\ Len(DockerEnvironments[1].ContainersInfo) >= 1)
          /\ pc' = "panic"
    /\ UNCHANGED <<DockerEnvironments, workflows, wi, ai, started, ran, result, last, latest>>

Next ==
    \/ CallExecuteActions
    \/ CheckDockerVersion_execute
    \/ CheckContainersStatus_execute(PlainOutputs({ExitedC, RunningC}))
    \/ CheckLocalImages_execute(PlainOutputs({AlpineI}))
    \/ ReturnNil
    \/ NextWorkflow
    \/ FinalPrint

Spec == Init /\ [][Next]_vars

(***************************************************************************)
(* The repeated runs: both workflows bound to the same name, so that every *)
(* probe kind runs two or three times for it.                              *)
(***************************************************************************)
InitRepeat ==
    InitWith(EnvLists,
             {<<[Name |-> Dev, Actions |-> <<Status, Images, Status>>],
                [Name |-> Dev, Actions |-> <<Version, Status, Images>>]>>,
              <<[Name |-> Dev, Actions |-> <<Version, Status, Images>>],
                [Name |-> Dev, Actions |-> <<Version, Status, Images>>]>>})

SpecRepeat == InitRepeat /\ [][Next]_vars

(***************************************************************************)
(* The splitter runs: one probe executed once on a wide range of outputs.  *)
(***************************************************************************)
InitSplit == InitWith({<<Dev, UAT>>}, {<<[Name |-> Dev, Actions |-> a]>> : a \in UnitLists})

NextSplit ==
    \/ CallExecuteActions
    \/ CheckDockerVersion_execute
    \/ CheckContainersStatus_execute(WideOutputs({ExitedC, RunningC, PausedC}))
    \/ CheckLocalImages_execute(WideOutputs({AlpineI, BusyboxI}))
    \/ ReturnNil
    \/ NextWorkflow
    \/ FinalPrint

SpecSplit == InitSplit /\ [][NextSplit]_vars

(***************************************************************************)
(* Properties                                                              *)
(***************************************************************************)
Finished == pc \in {"done", "panic"}

ProbeStep == ran' # ran

MarkerOf(kind) == IF kind = Status THEN ContainerMarker ELSE ImageMarker

NoFragment(kind, out) == IndexFrom(out, MarkerOf(kind), 1) = 0

Intact(src) == \A k \in 1..Len(src.items) : src.items[k].dmg = "none"

\* C1: when a probe of a workflow returns an error, executeActions returns
\* that error, the failing probe has written nothing, the Registry keeps
\* what earlier probes wrote (only a probe step ever changes it), and once a
\* workflow has returned an error none of its probes runs any more.
C1_AbortSemantics ==
    [][ /\ (ProbeStep /\ last'.err # NoErr) =>
              /\ result'[last'.w] = last'.err
              /\ pc' = "ret"
              /\ DockerEnvironments' = DockerEnvironments
        /\ ~ProbeStep => DockerEnvironments' = DockerEnvironments
        /\ \A w \in DOMAIN result :
              result[w] \in Errors =>
                  /\ ran'[w] = ran[w]
                  /\ result'[w] = result[w]
                  /\ ran[w] <= Len(workflows[w].Actions) ]_vars

C1_Witness ==
    /\ Finished
    /\ Len(workflows[1].Actions) = 3
    /\ result[1] \in Errors
    /\ ran[1] = 2
    /\ latest[workflows[1].Name][workflows[1].Actions[1]].set

\* C2: every workflow of the list is started exactly once, in list order,
\* whatever the earlier ones returned; at the end all have been started.
C2_WorkflowIndependence ==
    /\ Len(started) <= Len(workflows)
    /\ \A n \in 1..Len(started) : started[n] = n
    /\ \A w \in DOMAIN result : result[w] # "pending" => w <= Len(started)
    /\ pc = "main" => Len(started) = wi - 1
    /\ Finished => Len(started) = Len(workflows)

C2_Witness ==
    /\ Finished
    /\ result[1] \in Errors
    /\ started = <<1, 2>>
    /\ ran[2] >= 1

OwnedEqual(kind, a, b) ==
    CASE kind = Version -> a.DockerVersion = b.DockerVersion
      [] kind = Status  -> /\ a.StoppedContainers = b.StoppedContainers
                           /\ a.RunningContainers = b.RunningContainers
                           /\ a.ContainersInfo = b.ContainersInfo
      [] OTHER          -> /\ a.TotalLocalDockerImages = b.TotalLocalDockerImages
                           /\ a.ImagesInfo = b.ImagesInfo

OthersEqual(kind, a, b) ==
    /\ a.Environment = b.Environment
    /\ kind # Version => a.DockerVersion = b.DockerVersion
    /\ kind # Status => OwnedEqual(Status, a, b)
    /\ kind # Images => OwnedEqual(Images, a, b)

\* an entry shows the result of a probe of this kind on this output: the raw
\* text as version, or one record per record of the output
Applied(kind, src, out, e) ==
    CASE kind = Version -> e.DockerVersion = Join(out)
      [] kind = Status  -> /\ Len(e.ContainersInfo) = Len(src.items)
                           /\ e.StoppedContainers + e.RunningContainers
                                = Len(src.items)
      [] OTHER          -> /\ Len(e.ImagesInfo) = Len(src.items)
                           /\ e.TotalLocalDockerImages = Len(src.items)

\* C3: a successful probe for environment name n updates every entry named
\* n, all of them identically, touches only the fields the probe owns, and
\* leaves every entry with another name exactly as it was.
C3_NameMatchedUpdate ==
    [][ (ProbeStep /\ last'.err = NoErr) =>
          /\ DOMAIN DockerEnvironments' = DOMAIN DockerEnvironments
          /\ \A n \in DOMAIN DockerEnvironments :
                IF DockerEnvironments[n].Environment = last'.env
                THEN /\ OthersEqual(last'.kind, DockerEnvironments'[n],
                                    DockerEnvironments[n])
                     /\ Applied(last'.kind, last'.src, last'.out,
                                DockerEnvironments'[n])
                     /\ \A m \in DOMAIN DockerEnvironments :
                           DockerEnvironments[m].Environment = last'.env =>
                               OwnedEqual(last'.kind, DockerEnvironments'[n],
                                          DockerEnvironments'[m])
                ELSE DockerEnvironments'[n] = DockerEnvironments[n] ]_vars

C3_Witness ==
    /\ Len(DockerEnvironments) = 3
    /\ last.kind = Status /\ last.env = Dev /\ last.err = NoErr
    /\ Len(DockerEnvironments[1].ContainersInfo) = 1
    /\ DockerEnvironments[3].ContainersInfo = DockerEnvironments[1].ContainersInfo
    /\ DockerEnvironments[2].Environment = UAT
    /\ DockerEnvironments[2].StoppedContainers = 0
    /\ DockerEnvironments[2].RunningContainers = 0
    /\ DockerEnvironments[2].ContainersInfo = <<>>

\* C4: in a run in which a probe returned an error, the program reaches its
\* end without a run-time panic.
C4_NoPanic == (\E w \in DOMAIN result : result[w] \in Errors) => pc # "panic"

Stored(kind) ==
    IF kind = Status THEN DockerEnvironments[1].ContainersInfo
    ELSE DockerEnvironments[1].ImagesInfo

ZeroOf(kind) == IF kind = Status THEN ZeroContainerInfo ELSE ZeroImageInfo

SplitRun ==
    /\ last.kind \in {Status, Images}
    /\ last.cmd = NoErr
    /\ last.env = DockerEnvironments[1].Environment

\* C6: from an output of N intact records the probe stores exactly N
\* records, in order, each equal field by field to its source record.
C6_SplitterFidelity ==
    (SplitRun /\ Intact(last.src)) =>
        /\ last.err = NoErr
        /\ Len(Stored(last.kind)) = Len(last.src.items)
        /\ \A k \in 1..Len(last.src.items) :
              Stored(last.kind)[k] = last.src.items[k].rec

\* C6 for the container shape alone
C6_ContainerFidelity ==
    (SplitRun /\ last.kind = Status /\ Intact(last.src)) =>
        /\ Len(Stored(Status)) = Len(last.src.items)
        /\ \A k \in 1..Len(last.src.items) :
              Stored(Status)[k] = last.src.items[k].rec

\* one record is damaged so that its fragment exists but is not valid JSON
Truncated(src) ==
    /\ \A k \in 1..Len(src.items) : src.items[k].dmg \in {"none", "cut", "tail"}
    /\ \E k \in 1..Len(src.items) : src.items[k].dmg # "none"

\* C7: a fragment that fails to parse gives a zero-valued record at its
\* position, no error, and the other records are as many, in the same order
\* and fully populated from their source records.
C7_SplitterTolerance ==
    (SplitRun /\ Truncated(last.src)) =>
        /\ last.err = NoErr
        /\ Len(Stored(last.kind)) = Len(last.src.items)
        /\ \A k \in 1..Len(last.src.items) :
              Stored(last.kind)[k] =
                  IF last.src.items[k].dmg = "none"
                  THEN last.src.items[k].rec
                  ELSE ZeroOf(last.kind)

\* C7 for the container shape alone
C7_ContainerTolerance ==
    (SplitRun /\ last.kind = Status /\ Truncated(last.src)) =>
        /\ last.err = NoErr
        /\ Len(Stored(Status)) = Len(last.src.items)
        /\ \A k \in 1..Len(last.src.items) :
              Stored(Status)[k] =
                  IF last.src.items[k].dmg = "none"
                  THEN last.src.items[k].rec
                  ELSE ZeroContainerInfo

\* C7, read so that a fragment whose decoding reports a type error counts
\* as failing to parse too
C7_TypeErrorGivesZero ==
    (SplitRun /\ last.kind = Status) =>
        \A k \in 1..Len(last.src.items) :
            (last.src.items[k].dmg = "num"
                /\ Len(Stored(Status)) = Len(last.src.items))
                => Stored(Status)[k] = ZeroContainerInfo

\* C8: in every entry the stopped count is the number of stored container
\* records whose state is exactly "exited", and the running count is the
\* number of all the others.
C8_Classification ==
    \A n \in DOMAIN DockerEnvironments :
        LET e == DockerEnvironments[n]
            exited == {k \in 1..Len(e.ContainersInfo) :
                          e.ContainersInfo[k].State = "exited"}
        IN  /\ e.StoppedContainers = Cardinality(exited)
            /\ e.RunningContainers = Len(e.ContainersInfo) - Cardinality(exited)

C8_Witness ==
    LET e == DockerEnvironments[1]
    IN  /\ Len(e.ContainersInfo) = 3
        /\ e.ContainersInfo[1].State = "exited"
        /\ e.ContainersInfo[2] = ZeroContainerInfo
        /\ e.ContainersInfo[3].State = "paused"
        /\ e.StoppedContainers = 1
        /\ e.RunningContainers = 2

\* C9: the fields a probe kind owns in an entry are those of the latest
\* successful execution of that kind for the entry's name, whatever ran
\* before: the initial values if there was none, else the version text, or
\* the records and counts, of that one output.
C9_WholesaleOverwrite ==
    \A name \in Names :
        LET l == latest[name]
            cs == ContainerOutput(l[Status].out)
            is == ImageOutput(l[Images].out)
        IN  \A n \in DOMAIN DockerEnvironments :
                LET e == DockerEnvironments[n]
                IN  e.Environment = name =>
                    /\ e.DockerVersion =
                          IF l[Version].set THEN Join(l[Version].out) ELSE ""
                    /\ IF l[Status].set
                       THEN /\ e.ContainersInfo = cs
                            /\ e.StoppedContainers + e.RunningContainers
                                 = Len(cs)
                       ELSE /\ e.ContainersInfo = <<>>
                            /\ e.StoppedContainers = 0
                            /\ e.RunningContainers = 0
                    /\ IF l[Images].set
                       THEN /\ e.ImagesInfo = is
                            /\ e.TotalLocalDockerImages = Len(is)
                       ELSE /\ e.ImagesInfo = <<>>
                            /\ e.TotalLocalDockerImages = 0

C9_Witness ==
    /\ workflows[1].Actions = <<Status, Images, Status>>
    /\ ran[1] = 3
    /\ result[1] = NoErr
    /\ workflows[2].Name = Dev
    /\ last.w = 2 /\ last.kind = Status /\ last.err = NoErr
    /\ Len(DockerEnvironments[1].ContainersInfo) = 1
    /\ DockerEnvironments[1].StoppedContainers = 1

\* C10: in every entry the stopped and running counts add up to the number
\* of container records, the image count is the number of image records,
\* and no count is negative.
C10_CountsMatchRecords ==
    \A n \in DOMAIN DockerEnvironments :
        LET e == DockerEnvironments[n]
        IN  /\ e.StoppedContainers + e.RunningContainers = Len(e.ContainersInfo)
            /\ e.TotalLocalDockerImages = Len(e.ImagesInfo)
            /\ e.StoppedContainers >= 0
            /\ e.RunningContainers >= 0
            /\ e.TotalLocalDockerImages >= 0

C10_Witness ==
    /\ Finished
    /\ \E w \in DOMAIN result : result[w] \in Errors
    /\ Len(DockerEnvironments[1].ContainersInfo) = 1
    /\ Len(DockerEnvironments[1].ImagesInfo) = 1

====
